---- MODULE Spec2Model ----
(***************************************************************************)
(* A model of cmd/chain-sync: the main flow (configuration, era            *)
(* resolution, connection, start point, mode selection), the chain-sync    *)
(* roll-forward / roll-backward callbacks, the block-fetch block callback  *)
(* and the error-channel goroutine.                                        *)
(*                                                                         *)
(* The remote peer and the connection library are the environment: every   *)
(* library call returns success or an error chosen nondeterministically,   *)
(* the subscription pushes events one callback at a time, and a failure of *)
(* the connection surfaces either as the error of the call in progress or, *)
(* when no call is in progress, as an error on the error channel.          *)
(***************************************************************************)
EXTENDS Integers, Sequences, FiniteSets, TLC

\* ------------------------------------------------------------------ bounds
\* Number of events the subscription pushes in one run.
MaxEvents == 3
\* Slots of the peer's chain are 1..MaxSlot.
MaxSlot == 2
\* callbacks invoked when the handlers are run by themselves
MaxCalls == 2
\* the longest time a call of cmd/ping takes, in ticks of its clock
MaxDuration == 2

\* ------------------------------------------------------- library constants
\* ledger.BlockTypeByronEbb, ledger.BlockTypeByronMain, and the tag of one
\* later era (ledger.BlockTypeConway), which the handlers treat like every
\* other tag that is neither of the first two
BlockTypeByronEbb == 0
BlockTypeByronMain == 1
BlockTypeConway == 7
\* a value of the uint blockType that the ledger gives to no block type
BlockTypeUnrecognized == 99

\* ---------------------------------------------------------- era anchor table
eraIntersect ==
  "unknown" :> (
      "genesis" :> <<>>)
  @@
  "mainnet" :> (
      "genesis" :> <<>>
   @@ "byron" :> <<>>
   @@ "shelley" :> <<4492799,
         <<"f","8","0","8","4","c","6","1","b","6","a","2","3","8","a","c","e","c","9","8","5","b","5","9","3","1","0","b","6","e","c","e","c","4","9","c","0","a","b","8","3","5","2","2","4","9","a","f","d","7","2","6","8","d","a","5","c","f","f","2","a","4","5","7">>>>
   @@ "allegra" :> <<16588737,
         <<"4","e","9","b","b","b","b","6","7","e","3","a","e","2","6","2","1","3","3","d","9","4","c","3","d","a","5","b","f","f","c","e","7","b","1","1","2","7","f","c","4","3","6","e","7","4","3","3","b","8","7","6","6","8","d","b","a","3","4","c","3","5","4","a">>>>
   @@ "mary" :> <<23068793,
         <<"6","9","c","4","4","a","c","1","d","d","a","2","e","c","7","4","6","4","6","e","4","2","2","3","b","c","8","0","4","d","9","1","2","6","f","7","1","9","b","1","c","2","4","5","d","a","d","c","2","a","d","6","5","e","8","d","e","1","b","2","7","6","d","7">>>>
   @@ "alonzo" :> <<39916796,
         <<"e","7","2","5","7","9","f","f","8","9","d","c","9","e","d","3","2","5","b","7","2","3","a","3","3","6","2","4","b","5","9","6","c","0","8","1","4","1","c","7","b","d","5","7","3","e","c","f","f","f","5","6","a","1","f","7","2","2","9","e","4","d","0","9">>>>
   @@ "babbage" :> <<72316796,
         <<"c","5","8","a","2","4","b","a","8","2","0","3","e","7","6","2","9","4","2","2","a","2","4","d","9","d","c","6","8","c","e","2","e","d","4","9","5","4","2","0","b","f","4","0","d","9","d","a","b","1","2","4","3","7","3","6","5","5","1","6","1","a","2","0">>>>
   @@ "conway" :> <<133660799,
         <<"e","7","5","7","d","5","7","e","b","8","d","c","9","5","0","0","a","6","1","c","6","0","a","3","9","f","a","d","b","6","3","d","9","b","e","6","9","7","3","b","a","9","6","a","e","3","3","7","f","d","2","4","4","5","3","d","4","d","1","5","c","3","4","3">>>>)
  @@
  "preprod" :> (
      "genesis" :> <<>>
   @@ "alonzo" :> <<>>)
  @@
  "preview" :> (
      "genesis" :> <<>>
   @@ "alonzo" :> <<>>
   @@ "babbage" :> <<345594,
         <<"e","4","7","a","c","0","7","2","7","2","e","9","5","d","6","c","3","d","c","8","2","7","9","d","e","f","7","b","8","8","d","e","d","0","0","e","3","1","0","f","9","9","a","c","3","d","f","b","a","e","4","8","e","d","9","f","f","5","5","e","6","0","0","1">>>>)

\* _, ok := eraIntersect[network]
NetworkRegistered(network) == network \in DOMAIN eraIntersect

\* _, ok := eraIntersect[network][era]
EraRegistered(network, era) ==
  /\ NetworkRegistered(network)
  /\ era \in DOMAIN eraIntersect[network]

\* ouroboros.NetworkByName: the named networks of the library and their magic
NetworkMagicOf ==
     "mainnet" :> 764824073
  @@ "preprod" :> 1
  @@ "preview" :> 2
  @@ "sanchonet" :> 4
  @@ "devnet" :> 42

NetworkByName(name) ==
  IF name \in DOMAIN NetworkMagicOf
    THEN [ok |-> TRUE, NetworkMagic |-> NetworkMagicOf[name]]
    ELSE [ok |-> FALSE, NetworkMagic |-> 0]

\* ------------------------------------------------------------ hex decoding
HexDigits ==
     "0" :> 0 @@ "1" :> 1 @@ "2" :> 2 @@ "3" :> 3 @@ "4" :> 4 @@ "5" :> 5
  @@ "6" :> 6 @@ "7" :> 7 @@ "8" :> 8 @@ "9" :> 9 @@ "a" :> 10 @@ "b" :> 11
  @@ "c" :> 12 @@ "d" :> 13 @@ "e" :> 14 @@ "f" :> 15
  @@ "A" :> 10 @@ "B" :> 11 @@ "C" :> 12 @@ "D" :> 13 @@ "E" :> 14 @@ "F" :> 15

\* hex.DecodeString, its error dropped as main does (hash, _ :=): the bytes of
\* the leading well-formed pairs of s
RECURSIVE HexDecodeString(_)
HexDecodeString(s) ==
  IF Len(s) < 2 THEN <<>>
  ELSE IF s[1] \notin DOMAIN HexDigits \/ s[2] \notin DOMAIN HexDigits THEN <<>>
  ELSE <<HexDigits[s[1]] * 16 + HexDigits[s[2]]>> \o HexDecodeString(SubSeq(s, 3, Len(s)))

\* ------------------------------------------------------------------ points
\* pcommon.NewPoint(slot, hash)
NewPoint(slot, hash) == [Slot |-> slot, Hash |-> hash]
\* pcommon.NewPointOrigin()
NewPointOrigin == [Slot |-> 0, Hash |-> <<>>]

\* The peer's chain: the block at slot s has this hash
HashOf(s) == <<170, s>>
PeerPoint(s) == NewPoint(s, HashOf(s))
PeerPoints == {PeerPoint(s) : s \in 1..MaxSlot}
\* The peer's tip is the last block of its chain
PeerTip == PeerPoint(MaxSlot)

\* The peer's chain in chain order: an epoch boundary block, a legacy main
\* block, then blocks of the uniform shape
TypeAt(s) ==
  IF s = 1 THEN BlockTypeByronEbb
  ELSE IF s = 2 THEN BlockTypeByronMain
  ELSE BlockTypeConway

\* The Go type the ledger decodes a block of the given type tag into
ShapeOfType(t) ==
  IF t = BlockTypeByronEbb THEN "ByronEpochBoundaryBlock"
  ELSE IF t = BlockTypeByronMain THEN "ByronMainBlock"
  ELSE "Block"

BlockAt(s) == [kind |-> "Block", shape |-> ShapeOfType(TypeAt(s)), slot |-> s, hash |-> HashOf(s)]
HeaderAt(s) == [kind |-> "BlockHeader", shape |-> "BlockHeader", slot |-> s, hash |-> HashOf(s)]
NilBlock == [kind |-> "nil", shape |-> "nil", slot |-> 0, hash |-> <<>>]

\* ------------------------------------------------------------ configuration
Addresses == {"", "node:3001"}
SocketPaths == {"/ipc/node.socket"}
Networks == {"", "mainnet", "preprod", "preview", "devnet", "unknown", "bogus"}
Magics == {0, 42}
StartEras == {"genesis", "byron", "shelley", "alonzo", "babbage", "bogus"}

\* type Config
Config ==
  [SocketPath : SocketPaths, Address : Addresses, Network : Networks,
   Magic : Magics, StartEra : StartEras, Tip : BOOLEAN, Bulk : BOOLEAN,
   BlockRange : BOOLEAN]

NoError == "none"

VARIABLES
  cfg,            \* the parsed configuration (environment and flags)
  pc,             \* where main is
  status,         \* "running", "exit1" (os.Exit(1)), "returned", "panic"
  exitMsg,        \* what was printed when the process ended
  intersectPoint, \* main's intersectPoint
  oConn,          \* the package variable oConn: "nil" or "conn"
  errHandler,     \* whether the error-handler goroutine has been started
  errorChan,      \* the error a sender is blocked with on errorChan, or NoError
  dialed,         \* whether Dial has succeeded
  point,          \* main's start point
  range,          \* the (start, end) of the bulk branch
  sub,            \* the chain-sync subscription: "none", "active", "stopped"
  nEvents,        \* events pushed by the subscription so far
  pending,        \* roll-forward callbacks blocked in GetBlock
  fetchQueue,     \* slots of the blocks a range fetch has still to deliver
  trace,          \* calls, returns, events and deliveries, in order
  pingCfg,        \* cmd/ping: the configuration (environment)
  pingPc,         \* cmd/ping: where main is
  pingConn,       \* cmd/ping: main's conn: nil, or the options it was made with
  connCalls,      \* cmd/ping: the calls made on conn, in order
  result,         \* cmd/ping: the PingResult of PingNode
  output          \* cmd/ping: the lines main has printed

mainVars == <<cfg, pc, intersectPoint, oConn, errHandler, dialed, point, range>>
peerVars == <<sub, nEvents, pending, fetchQueue>>
vars == <<cfg, pc, status, exitMsg, intersectPoint, oConn, errHandler, errorChan,
          dialed, point, range, sub, nEvents, pending, fetchQueue, trace,
          pingCfg, pingPc, pingConn, connCalls, result, output>>
pingVars == <<pingCfg, pingPc, pingConn, connCalls, result, output>>
chainSyncVars ==
  <<cfg, pc, status, exitMsg, intersectPoint, oConn, errHandler, errorChan,
    dialed, point, range, sub, nEvents, pending, fetchQueue, trace>>

\* ------------------------------------------------------------------- trace
CallEntry(op, arg, ev) == [t |-> "call", op |-> op, arg |-> arg, ok |-> TRUE, ev |-> ev]
RetEntry(op, arg, ok, ev) == [t |-> "ret", op |-> op, arg |-> arg, ok |-> ok, ev |-> ev]
EventEntry(kind, arg, ev) == [t |-> "event", op |-> kind, arg |-> arg, ok |-> TRUE, ev |-> ev]
\* a callback invoked with a block: its block type tag and its payload
BlockEventEntry(kind, blockType, blockData, ev) ==
  [t |-> "event", op |-> kind, arg |-> blockData, ok |-> TRUE, ev |-> ev,
   blockType |-> blockType]
\* a line the consumer sees (fmt.Printf of a block or of a rollback)
DeliverEntry(what, arg, ev) == [t |-> "deliver", op |-> what, arg |-> arg, ok |-> TRUE, ev |-> ev]
\* an error handed to the error channel
ErrorEntry(err) == [t |-> "error", op |-> err, arg |-> <<>>, ok |-> FALSE, ev |-> 0]

\* a blocking library call made by main: issued and returned in one step
MainCall(op, arg, ok) == trace \o <<CallEntry(op, arg, 0), RetEntry(op, arg, ok, 0)>>
\* the same, the return entry showing what the call returned
MainCallRes(op, arg, ok, res) ==
  trace \o <<CallEntry(op, arg, 0), RetEntry(op, res, ok, 0)>>

\* cmd/ping has not been started
\* type PingResult struct: the zero value
NoResult == [ConnectionTime |-> 0, ProtocolTime |-> 0, Error |-> NoError]
\* var conn NodeConnection: nil
NilConn == [nil |-> TRUE, NetworkMagic |-> 0, NodeToNode |-> FALSE]
PingStart ==
  /\ pingPc = "new"
  /\ pingConn = NilConn
  /\ connCalls = <<>>
  /\ result = NoResult
  /\ output = <<>>
PingIdle ==
  /\ pingCfg = [Magic |-> 0, SocketPath |-> "", Address |-> "", Network |-> ""]
  /\ PingStart

\* cmd/chain-sync at the start of main
ChainSyncStart ==
  /\ pc = "configure"
  /\ status = "running"
  /\ exitMsg = ""
  /\ intersectPoint = <<>>
  /\ oConn = "nil"
  /\ errHandler = FALSE
  /\ errorChan = NoError
  /\ dialed = FALSE
  /\ point = NewPointOrigin
  /\ range = <<>>
  /\ sub = "none"
  /\ nEvents = 0
  /\ pending = {}
  /\ fetchQueue = <<>>
  /\ trace = <<>>

Init ==
  /\ PingIdle
  /\ cfg \in Config
  /\ ChainSyncStart

\* ------------------------------------------------------ main: configuration
\* Determine connection type: NtN (TCP) if Address is set, else NtC (UNIX socket)
TransportOf(c) ==
  IF c.Address # ""
    THEN [networkType |-> "tcp", address |-> c.Address, isNtN |-> TRUE]
    ELSE [networkType |-> "unix", address |-> c.SocketPath, isNtN |-> FALSE]

\* ConfigureMagic with the network name defaulted also when a magic is given
ConfigureMagic_AlwaysDefault(c) ==
  LET name == IF c.Network = "" THEN "preview" ELSE c.Network
      network == NetworkByName(name)
  IN  IF c.Magic = 0
        THEN IF ~network.ok
               THEN [ok |-> FALSE, cfg |-> [c EXCEPT !.Network = name]]
               ELSE [ok |-> TRUE,
                     cfg |-> [c EXCEPT !.Network = name, !.Magic = network.NetworkMagic]]
        ELSE [ok |-> TRUE, cfg |-> [c EXCEPT !.Network = name]]

\* Configure NetworkMagic
ConfigureMagic(c) ==
  IF c.Magic = 0
    THEN LET name == IF c.Network = "" THEN "preview" ELSE c.Network
             network == NetworkByName(name)
         IN  IF ~network.ok
               THEN [ok |-> FALSE, cfg |-> [c EXCEPT !.Network = name]]
               ELSE [ok |-> TRUE,
                     cfg |-> [c EXCEPT !.Network = name, !.Magic = network.NetworkMagic]]
    ELSE [ok |-> TRUE, cfg |-> c]

ErrOnlyGenesis == "only 'genesis' is supported for -start-era for unknown networks"
ErrUnknownEra == "unknown era specified as chain-sync start point"
ErrInvalidNetwork == "invalid network specified"

\* ResolveEra with any era accepted for a network that is not in the table
ResolveEra_AnyEraForUnknown(network, era) ==
  IF ~NetworkRegistered(network)
    THEN [ok |-> TRUE, err |-> NoError,
          intersectPoint |-> eraIntersect["unknown"]["genesis"]]
    ELSE IF ~EraRegistered(network, era)
           THEN [ok |-> FALSE, err |-> ErrUnknownEra, intersectPoint |-> <<>>]
           ELSE [ok |-> TRUE, err |-> NoError,
                 intersectPoint |-> eraIntersect[network][era]]

\* ResolveEra with the origin used for an era that is not in the table
ResolveEra_MissingEraIsOrigin(network, era) ==
  IF ~NetworkRegistered(network)
    THEN IF era # "genesis"
           THEN [ok |-> FALSE, err |-> ErrOnlyGenesis, intersectPoint |-> <<>>]
           ELSE [ok |-> TRUE, err |-> NoError,
                 intersectPoint |-> eraIntersect["unknown"]["genesis"]]
    ELSE [ok |-> TRUE, err |-> NoError,
          intersectPoint |-> IF EraRegistered(network, era)
                               THEN eraIntersect[network][era] ELSE <<>>]

\* Determine era intersection point
ResolveEra(network, era) ==
  IF ~NetworkRegistered(network)
    THEN IF era # "genesis"
           THEN [ok |-> FALSE, err |-> ErrOnlyGenesis, intersectPoint |-> <<>>]
           ELSE [ok |-> TRUE, err |-> NoError,
                 intersectPoint |-> eraIntersect["unknown"]["genesis"]]
    ELSE IF ~EraRegistered(network, era)
           THEN [ok |-> FALSE, err |-> ErrUnknownEra, intersectPoint |-> <<>>]
           ELSE [ok |-> TRUE, err |-> NoError,
                 intersectPoint |-> eraIntersect[network][era]]

\* os.Exit(1) after printing msg
Exit(msg) ==
  /\ status' = "exit1"
  /\ exitMsg' = msg

Running == status = "running"

MainConfigure ==
  /\ Running /\ pc = "configure"
  /\ LET m == ConfigureMagic(cfg)
         e == ResolveEra(m.cfg.Network, m.cfg.StartEra)
     IN  /\ cfg' = m.cfg
         /\ IF ~m.ok
              THEN /\ Exit(ErrInvalidNetwork)
                   /\ pc' = "end"
                   /\ UNCHANGED intersectPoint
              ELSE IF ~e.ok
                THEN /\ Exit(e.err)
                     /\ pc' = "end"
                     /\ UNCHANGED intersectPoint
                ELSE /\ intersectPoint' = e.intersectPoint
                     /\ pc' = "connect"
                     /\ UNCHANGED <<status, exitMsg>>
  /\ UNCHANGED <<oConn, errHandler, errorChan, dialed, point, range, trace>>
  /\ UNCHANGED peerVars
  /\ UNCHANGED pingVars

\* main that keeps the connection in its local o only
AssignedConn_LocalOnly(o) == "nil"
\* oConn = o
AssignedConn(o) == o

\* Create error channel, start error handler, configure Ouroboros
MainNewConnection ==
  /\ Running /\ pc = "connect"
  /\ errHandler' = TRUE
  /\ \E ok \in BOOLEAN :
       IF ok
         THEN /\ oConn' = AssignedConn("conn")
              /\ pc' = "dial"
              /\ UNCHANGED <<status, exitMsg>>
         ELSE /\ Exit("NewConnection failed")
              /\ pc' = "end"
              /\ UNCHANGED oConn
  /\ UNCHANGED <<cfg, intersectPoint, errorChan, dialed, point, range, trace>>
  /\ UNCHANGED peerVars
  /\ UNCHANGED pingVars

\* Connect to Node
MainDial ==
  /\ Running /\ pc = "dial"
  /\ \E ok \in BOOLEAN :
       LET tr == TransportOf(cfg)
       IN  /\ trace' = MainCall("Dial", <<tr.networkType, tr.address>>, ok)
           /\ IF ok
                THEN /\ dialed' = TRUE
                     /\ pc' = "startpoint"
                     /\ UNCHANGED <<status, exitMsg>>
                ELSE /\ Exit("connection failed")
                     /\ pc' = "end"
                     /\ UNCHANGED dialed
  /\ UNCHANGED <<cfg, intersectPoint, oConn, errHandler, errorChan, point, range>>
  /\ UNCHANGED peerVars
  /\ UNCHANGED pingVars

\* ModeBranch with the bulk branch taken whatever the transport
ModeBranch_BulkAnyTransport(c) ==
  IF c.BlockRange THEN "range"
  ELSE IF ~c.Bulk THEN "sync"
  ELSE "bulkrange"

\* ModeBranch with && written for || in the test of the standard mode
ModeBranch_AndForOr(c) ==
  IF c.BlockRange THEN "range"
  ELSE IF ~TransportOf(c).isNtN /\ ~c.Bulk THEN "sync"
  ELSE "bulkrange"

\* ModeBranch with the bulk branch tested before the range flag
ModeBranch_BulkFirst(c) ==
  IF TransportOf(c).isNtN /\ c.Bulk THEN "bulkrange"
  ELSE IF c.BlockRange THEN "range"
  ELSE "sync"

\* Handle different modes: the branch main takes
ModeBranch(c) ==
  IF c.BlockRange THEN "range"
  ELSE IF ~TransportOf(c).isNtN \/ ~c.Bulk THEN "sync"
  ELSE "bulkrange"

\* PointOfIntersect with the origin for every entry of the table
PointOfIntersect_AlwaysOrigin(ip) == NewPointOrigin

\* PointOfIntersect with the hash left as the hex string of the table
PointOfIntersect_HexHash(ip) ==
  IF Len(ip) > 0
    THEN NewPoint(ip[1], ip[2])
    ELSE NewPointOrigin

\* the start point when -tip is not given
PointOfIntersect(ip) ==
  IF Len(ip) > 0
    THEN NewPoint(ip[1], HexDecodeString(ip[2]))
    ELSE NewPointOrigin

\* StartPoint with a point of the era table preferred to the tip
StartPoint_EraFirst(c, ip, tip) ==
  IF Len(ip) > 0 THEN PointOfIntersect(ip)
  ELSE IF c.Tip THEN tip
  ELSE NewPointOrigin

\* the start point: the tip returned by GetCurrentTip if -tip is given
StartPoint(c, ip, tip) ==
  IF c.Tip THEN tip ELSE PointOfIntersect(ip)

\* Determine starting point
MainStartPoint ==
  /\ Running /\ pc = "startpoint"
  /\ IF cfg.Tip
       THEN \E ok \in BOOLEAN :
              /\ trace' = MainCall("GetCurrentTip", <<>>, ok)
              /\ IF ok
                   THEN /\ point' = StartPoint(cfg, intersectPoint, PeerTip)
                        /\ pc' = ModeBranch(cfg)
                        /\ UNCHANGED <<status, exitMsg>>
                   ELSE /\ Exit("failed to get current tip")
                        /\ pc' = "end"
                        /\ UNCHANGED point
       ELSE /\ point' = StartPoint(cfg, intersectPoint, PeerTip)
            /\ pc' = ModeBranch(cfg)
            /\ UNCHANGED <<status, exitMsg, trace>>
  /\ UNCHANGED <<cfg, intersectPoint, oConn, errHandler, errorChan, dialed, range>>
  /\ UNCHANGED peerVars
  /\ UNCHANGED pingVars

\* ------------------------------------------------------------- main: modes
\* Errors of the chain-sync client: chainsync.ErrIntersectNotFound, and any
\* failure of the transport or the protocol
ErrIntersectNotFound == "chain intersection not found"
ErrProtocol == "protocol error"

\* Whether a candidate intersect point is on the peer's chain: the origin and
\* the peer's blocks are, a point of the era table beyond the peer's tip is not
OnPeerChain(p) == p = NewPointOrigin \/ p \in PeerPoints

\* What the peer's answer to FindIntersect makes the client return
IntersectOutcomes(p) ==
  IF OnPeerChain(p) THEN {NoError, ErrProtocol} ELSE {ErrIntersectNotFound, ErrProtocol}

\* fmt.Printf("ERROR: <what>: %s\n", err)
Sprintf(what, err) == what \o ": " \o err

\* RangeQueryFailedMsg that does not print the error
RangeQueryFailedMsg_NoErr(err) == "failed to get available block range"
RangeQueryFailedMsg(err) == Sprintf("failed to get available block range", err)
SyncFailedMsg(err) == Sprintf("failed to start chain-sync", err)

\* FetchRangeArgs with the bounds swapped
FetchRangeArgs_Swapped(start, end) == <<end, start>>
\* GetBlockRange(start, end)
FetchRangeArgs(start, end) == <<start, end>>

\* where main goes after each call of the mode branches, by the call's result
\* AfterRangeQuery without the return at its end
AfterRangeQuery_NoReturn(ok) == IF ok THEN "sync" ELSE "exit"
AfterRangeQuery(ok) == IF ok THEN "return" ELSE "exit"
\* AfterSync falling through into the bulk branch (an if for the else)
AfterSync_FallThrough(ok) == IF ok THEN "bulkrange" ELSE "exit"
AfterSync(ok) == IF ok THEN "wait" ELSE "exit"
AfterBulkRange(ok) == IF ok THEN "bulkstop" ELSE "exit"
\* AfterStop with the error of Stop ignored
AfterStop_IgnoreError(ok) == "bulkfetch"
AfterStop(ok) == IF ok THEN "bulkfetch" ELSE "exit"
\* AfterGetBlockRange of a main that returns instead of waiting in select {}
AfterGetBlockRange_Return(ok) == IF ok THEN "return" ELSE "exit"
AfterGetBlockRange(ok) == IF ok THEN "wait" ELSE "exit"

\* main moves on: os.Exit(1) with msg, return from main, or the next statement
Goto(next, msg) ==
  IF next = "exit"
    THEN /\ Exit(msg)
         /\ pc' = "end"
    ELSE IF next = "return"
      THEN /\ status' = "returned"
           /\ exitMsg' = ""
           /\ pc' = "end"
      ELSE /\ pc' = next
           /\ UNCHANGED <<status, exitMsg>>

\* the slots from a to b
RECURSIVE SlotsFrom(_, _)
SlotsFrom(a, b) == IF a > b THEN <<>> ELSE <<a>> \o SlotsFrom(a + 1, b)

\* -range: show start/end block of range, then return
MainRangeQuery ==
  /\ Running /\ pc = "range"
  /\ \E err \in IntersectOutcomes(point), a \in 1..MaxSlot, b \in 1..MaxSlot :
       LET ok == err = NoError
       IN  /\ a <= b
           /\ trace' = MainCallRes("GetAvailableBlockRange", <<point>>, ok,
                          IF ok THEN <<PeerPoint(a), PeerPoint(b)>> ELSE <<err>>)
           /\ Goto(AfterRangeQuery(ok), RangeQueryFailedMsg(err))
  /\ UNCHANGED <<cfg, intersectPoint, oConn, errHandler, errorChan, dialed, point, range>>
  /\ UNCHANGED peerVars
  /\ UNCHANGED pingVars

\* Standard chain-sync mode (NtC or NtN non-bulk)
MainSync ==
  /\ Running /\ pc = "sync"
  /\ \E err \in IntersectOutcomes(point) :
       LET ok == err = NoError
       IN  /\ trace' = MainCallRes("Sync", <<point>>, ok, <<err>>)
           /\ sub' = IF ok THEN "active" ELSE sub
           /\ Goto(AfterSync(ok), SyncFailedMsg(err))
  /\ UNCHANGED <<cfg, intersectPoint, oConn, errHandler, errorChan, dialed, point, range>>
  /\ UNCHANGED <<nEvents, pending, fetchQueue>>
  /\ UNCHANGED pingVars

\* Bulk mode (NtN only): the available range
MainBulkRange ==
  /\ Running /\ pc = "bulkrange"
  /\ \E err \in IntersectOutcomes(point), a \in 1..MaxSlot, b \in 1..MaxSlot :
       LET ok == err = NoError
       IN  /\ a <= b
           /\ trace' = MainCallRes("GetAvailableBlockRange", <<point>>, ok,
                          IF ok THEN <<PeerPoint(a), PeerPoint(b)>> ELSE <<err>>)
           /\ range' = IF ok THEN <<PeerPoint(a), PeerPoint(b)>> ELSE range
           /\ Goto(AfterBulkRange(ok), RangeQueryFailedMsg(err))
  /\ UNCHANGED <<cfg, intersectPoint, oConn, errHandler, errorChan, dialed, point>>
  /\ UNCHANGED peerVars
  /\ UNCHANGED pingVars

\* Stop the chain-sync client
MainBulkStop ==
  /\ Running /\ pc = "bulkstop"
  /\ \E ok \in BOOLEAN :
       /\ trace' = MainCall("Stop", <<>>, ok)
       /\ sub' = IF ok THEN "stopped" ELSE sub
       /\ Goto(AfterStop(ok), "failed to shutdown chain-sync")
  /\ UNCHANGED <<cfg, intersectPoint, oConn, errHandler, errorChan, dialed, point, range>>
  /\ UNCHANGED <<nEvents, pending, fetchQueue>>
  /\ UNCHANGED pingVars

\* Request the block range
MainBulkFetch ==
  /\ Running /\ pc = "bulkfetch"
  /\ \E ok \in BOOLEAN :
       /\ Len(range) = 2 =>
            trace' = MainCall("GetBlockRange", FetchRangeArgs(range[1], range[2]), ok)
       /\ Len(range) # 2 => trace' = MainCall("GetBlockRange", range, ok)
       /\ fetchQueue' = IF ok /\ Len(range) = 2
                          THEN SlotsFrom(FetchRangeArgs(range[1], range[2])[1].Slot,
                                         FetchRangeArgs(range[1], range[2])[2].Slot)
                          ELSE fetchQueue
       /\ Goto(AfterGetBlockRange(ok), "failed to request block range")
  /\ UNCHANGED <<cfg, intersectPoint, oConn, errHandler, errorChan, dialed, point, range>>
  /\ UNCHANGED <<sub, nEvents, pending>>
  /\ UNCHANGED pingVars

\* ------------------------------------------------------------ error handler
\* ErrorHandler that prints the error and keeps receiving
ErrorHandler_LogOnly ==
  /\ Running /\ errHandler
  /\ errorChan # NoError
  /\ errorChan' = NoError
  /\ UNCHANGED <<status, exitMsg, trace>>
  /\ UNCHANGED mainVars
  /\ UNCHANGED peerVars
  /\ UNCHANGED pingVars

\* go func() { for { err := <-errorChan; fmt.Printf(...); os.Exit(1) } }()
ErrorHandler ==
  /\ Running /\ errHandler
  /\ errorChan # NoError
  /\ Exit(errorChan)
  /\ UNCHANGED <<errorChan, trace>>
  /\ UNCHANGED mainVars
  /\ UNCHANGED peerVars
  /\ UNCHANGED pingVars

ErrConnection == "connection error"

\* The connection reports a failure on the error channel given to
\* WithErrorChan; while a callback is blocked in a call the failure is that
\* call's error instead
ConnError ==
  /\ Running /\ dialed
  /\ errorChan = NoError
  /\ pending = {}
  /\ errorChan' = ErrConnection
  /\ trace' = trace \o <<ErrorEntry(ErrConnection)>>
  /\ UNCHANGED <<status, exitMsg>>
  /\ UNCHANGED mainVars
  /\ UNCHANGED peerVars
  /\ UNCHANGED pingVars

\* ---------------------------------------------------------------- callbacks
ErrEmptyConn == "empty ouroboros connection, aborting"
ErrBlockNil == "block is nil"
ErrGetBlock == "GetBlock failed"

\* FetchPoint with the hash of the header left out
FetchPoint_NoHash(v) == NewPoint(v.slot, <<>>)

\* pcommon.NewPoint(blockSlot, blockHash) of the header of a roll-forward
FetchPoint(v) == NewPoint(v.slot, v.hash)

\* chainSyncRollForwardHandler, the switch on the payload's type: what the
\* handler does first
RollForwardPayload(blockData, conn) ==
  IF blockData.kind = "Block"
    THEN [step |-> "display", block |-> blockData, err |-> NoError]
  ELSE IF blockData.kind = "BlockHeader"
    THEN IF conn = "nil"
           THEN [step |-> "error", block |-> NilBlock, err |-> ErrEmptyConn]
           ELSE [step |-> "fetch", block |-> NilBlock, err |-> NoError]
  ELSE [step |-> "display", block |-> NilBlock, err |-> NoError]

\* AfterGetBlock with the error of GetBlock not checked
AfterGetBlock_Swallow(ok) == "display"

\* block, err = GetBlock(...); if err != nil { return err }
AfterGetBlock(ok) == IF ok THEN "display" ELSE "error"

\* Display with an error for a block type that is none of the known ones
Display_UnknownBlockType(blockType, block) ==
  IF blockType = BlockTypeByronEbb
    THEN IF block.shape = "ByronEpochBoundaryBlock"
           THEN [res |-> "ok", prints |-> <<"Byron (EBB)">>, err |-> NoError]
           ELSE [res |-> "panic", prints |-> <<>>, err |-> NoError]
  ELSE IF blockType = BlockTypeByronMain
    THEN IF block.shape = "ByronMainBlock"
           THEN [res |-> "ok", prints |-> <<"Byron">>, err |-> NoError]
           ELSE [res |-> "panic", prints |-> <<>>, err |-> NoError]
  ELSE IF blockType # BlockTypeConway
    THEN [res |-> "error", prints |-> <<>>, err |-> "unknown block type"]
  ELSE IF block.kind = "nil"
    THEN [res |-> "error", prints |-> <<>>, err |-> ErrBlockNil]
    ELSE [res |-> "ok", prints |-> <<"Era">>, err |-> NoError]

\* Display with the legacy main case falling through into the default case
Display_FallThrough(blockType, block) ==
  IF blockType = BlockTypeByronEbb
    THEN IF block.shape = "ByronEpochBoundaryBlock"
           THEN [res |-> "ok", prints |-> <<"Byron (EBB)">>, err |-> NoError]
           ELSE [res |-> "panic", prints |-> <<>>, err |-> NoError]
  ELSE IF blockType = BlockTypeByronMain
    THEN IF block.shape = "ByronMainBlock"
           THEN [res |-> "ok", prints |-> <<"Byron", "Era">>, err |-> NoError]
           ELSE [res |-> "panic", prints |-> <<>>, err |-> NoError]
  ELSE IF block.kind = "nil"
    THEN [res |-> "error", prints |-> <<>>, err |-> ErrBlockNil]
    ELSE [res |-> "ok", prints |-> <<"Era">>, err |-> NoError]

\* chainSyncRollForwardHandler, "Display block info": the lines printed, or the
\* error returned, or the panic of a failed type assertion
Display(blockType, block) ==
  IF blockType = BlockTypeByronEbb
    THEN IF block.shape = "ByronEpochBoundaryBlock"
           THEN [res |-> "ok", prints |-> <<"Byron (EBB)">>, err |-> NoError]
           ELSE [res |-> "panic", prints |-> <<>>, err |-> NoError]
  ELSE IF blockType = BlockTypeByronMain
    THEN IF block.shape = "ByronMainBlock"
           THEN [res |-> "ok", prints |-> <<"Byron">>, err |-> NoError]
           ELSE [res |-> "panic", prints |-> <<>>, err |-> NoError]
  ELSE IF block.kind = "nil"
    THEN [res |-> "error", prints |-> <<>>, err |-> ErrBlockNil]
    ELSE [res |-> "ok", prints |-> <<"Era">>, err |-> NoError]

\* BlockFetchDisplay with the case of lcommon.Block written first
BlockFetchDisplay_GenericFirst(blockData) ==
  IF blockData.kind = "Block" THEN <<"Era">>
  ELSE IF blockData.shape = "ByronEpochBoundaryBlock" THEN <<"Byron (EBB)">>
  ELSE IF blockData.shape = "ByronMainBlock" THEN <<"Byron">>
  ELSE <<>>

\* blockFetchBlockHandler: the lines printed for a block of a range fetch
BlockFetchDisplay(blockData) ==
  IF blockData.shape = "ByronEpochBoundaryBlock" THEN <<"Byron (EBB)">>
  ELSE IF blockData.shape = "ByronMainBlock" THEN <<"Byron">>
  ELSE IF blockData.kind = "Block" THEN <<"Era">>
  ELSE <<>>

DeliverEntries(prints, slot, ev) ==
  [i \in 1..Len(prints) |-> DeliverEntry(prints[i], slot, ev)]

\* HandlerBusy of a handler that fetches the block in the background
HandlerBusy_Async(p) == FALSE

\* Whether the subscription has to wait before it runs the next callback: the
\* handler calls GetBlock synchronously, so it has not returned while a fetch
\* is outstanding
HandlerBusy(p) == p # {}

\* The end of a roll-forward callback with trace tr so far: the block is
\* printed and nil returned, or an error is returned (the connection then
\* stops the subscription and reports the error on the error channel), or the
\* process panics
FinishRollForward(tr, d, slot, ev) ==
  IF d.res = "ok"
    THEN /\ trace' = tr \o DeliverEntries(d.prints, slot, ev)
                       \o <<RetEntry("RollForward", NoError, TRUE, ev)>>
         /\ UNCHANGED <<errorChan, sub, status, exitMsg>>
  ELSE IF d.res = "error"
    THEN /\ trace' = tr \o <<RetEntry("RollForward", d.err, FALSE, ev)>>
                       \o (IF errorChan = NoError THEN <<ErrorEntry(d.err)>> ELSE <<>>)
         /\ errorChan' = IF errorChan = NoError THEN d.err ELSE errorChan
         /\ sub' = "stopped"
         /\ UNCHANGED <<status, exitMsg>>
  ELSE /\ trace' = tr
       /\ status' = "panic"
       /\ exitMsg' = "panic: interface conversion"
       /\ UNCHANGED <<errorChan, sub>>

\* The subscription may push an event
CanPush ==
  /\ Running
  /\ sub = "active"
  /\ errorChan = NoError
  /\ ~HandlerBusy(pending)
  /\ nEvents < MaxEvents

\* chainSyncRollBackwardHandler that fetches the block it is rolled back to
chainSyncRollBackwardHandler_Refetch(p, tip) ==
  LET ev == nEvents + 1
      arg == [point |-> p, tip |-> tip]
  IN  /\ nEvents' = ev
      /\ trace' = trace \o <<EventEntry("rollback", arg, ev),
                             DeliverEntry("rollback", arg, ev),
                             CallEntry("GetBlock", p, ev)>>
      /\ pending' = pending \cup {[ev |-> ev, blockType |-> BlockTypeConway, point |-> p]}
      /\ UNCHANGED <<status, exitMsg, errorChan, sub, fetchQueue>>

\* chainSyncRollBackwardHandler(ctx, point, tip): prints the two and returns nil
chainSyncRollBackwardHandler(p, tip) ==
  LET ev == nEvents + 1
      arg == [point |-> p, tip |-> tip]
  IN  /\ nEvents' = ev
      /\ trace' = trace \o <<EventEntry("rollback", arg, ev),
                             DeliverEntry("rollback", arg, ev),
                             RetEntry("RollBackward", NoError, TRUE, ev)>>
      /\ UNCHANGED <<status, exitMsg, errorChan, sub, pending, fetchQueue>>

\* The subscription calls chainSyncRollBackwardHandler. The peer rolls the
\* subscription back to the point it was started from.
SyncRollBackward ==
  /\ CanPush
  /\ chainSyncRollBackwardHandler(point, PeerTip)
  /\ UNCHANGED mainVars
  /\ UNCHANGED pingVars

\* chainSyncRollForwardHandler(ctx, blockType, blockData, tip), up to its
\* return or to its call of GetBlock
chainSyncRollForwardHandler(blockType, blockData) ==
  LET ev == nEvents + 1
      first == RollForwardPayload(blockData, oConn)
      tr == trace \o <<BlockEventEntry("forward", blockType, blockData, ev)>>
  IN  /\ nEvents' = ev
      /\ IF first.step = "fetch"
           THEN /\ pending' = pending \cup
                     {[ev |-> ev, blockType |-> blockType, point |-> FetchPoint(blockData)]}
                /\ trace' = tr \o <<CallEntry("GetBlock", FetchPoint(blockData), ev)>>
                /\ UNCHANGED <<errorChan, sub, status, exitMsg>>
           ELSE /\ FinishRollForward(tr,
                     IF first.step = "error"
                       THEN [res |-> "error", prints |-> <<>>, err |-> first.err]
                       ELSE Display(blockType, first.block),
                     first.block.slot, ev)
                /\ UNCHANGED pending

\* chainSyncRollForwardHandler, from the return of GetBlock on
AfterGetBlockReturn(p, ok, block) ==
  /\ pending' = pending \ {p}
  /\ LET tr == trace \o <<RetEntry("GetBlock", p.point, ok, p.ev)>>
     IN  FinishRollForward(tr,
           IF AfterGetBlock(ok) = "error"
             THEN [res |-> "error", prints |-> <<>>, err |-> ErrGetBlock]
             ELSE Display(p.blockType, block),
           block.slot, p.ev)

\* blockFetchBlockHandler(ctx, blockType, blockData): it always returns nil
blockFetchBlockHandler(blockType, blockData) ==
  trace' = trace \o <<BlockEventEntry("block", blockType, blockData, 0)>>
                 \o DeliverEntries(BlockFetchDisplay(blockData), blockData.slot, 0)

\* The subscription calls chainSyncRollForwardHandler. Node-to-node
\* subscriptions push headers, node-to-client ones full blocks.
SyncRollForward ==
  /\ CanPush
  /\ \E s \in 1..MaxSlot :
       chainSyncRollForwardHandler(TypeAt(s),
         IF TransportOf(cfg).isNtN THEN HeaderAt(s) ELSE BlockAt(s))
  /\ UNCHANGED fetchQueue
  /\ UNCHANGED mainVars
  /\ UNCHANGED pingVars

\* GetBlock returns to chainSyncRollForwardHandler. The peer answers with the
\* block at the requested point, or the fetch fails.
GetBlockReturn ==
  /\ Running
  /\ \E p \in pending, ok \in BOOLEAN :
       /\ ok => p.point \in PeerPoints
       /\ AfterGetBlockReturn(p, ok, IF ok THEN BlockAt(p.point.Slot) ELSE NilBlock)
  /\ UNCHANGED <<nEvents, fetchQueue>>
  /\ UNCHANGED mainVars
  /\ UNCHANGED pingVars

\* blockFetchBlockHandler: the next block of the requested range arrives
BlockFetchBlock ==
  /\ Running
  /\ errorChan = NoError
  /\ fetchQueue # <<>>
  /\ blockFetchBlockHandler(TypeAt(Head(fetchQueue)), BlockAt(Head(fetchQueue)))
  /\ fetchQueue' = Tail(fetchQueue)
  /\ UNCHANGED <<status, exitMsg, errorChan, sub, nEvents, pending>>
  /\ UNCHANGED mainVars
  /\ UNCHANGED pingVars

\* ------------------------------------------------------------ specification
Next ==
  \/ MainConfigure
  \/ MainNewConnection
  \/ MainDial
  \/ MainStartPoint
  \/ MainRangeQuery
  \/ MainSync
  \/ MainBulkRange
  \/ MainBulkStop
  \/ MainBulkFetch
  \/ ErrorHandler
  \/ ConnError
  \/ SyncRollBackward
  \/ SyncRollForward
  \/ GetBlockReturn
  \/ BlockFetchBlock

Spec == Init /\ [][Next]_vars

\* The Go scheduler runs the error-handler goroutine when an error is waiting
\* on the channel
FairSpec == Spec /\ WF_vars(ErrorHandler)

\* ------------------------------------------- the handlers run by themselves
\* The values of the handlers' parameters: any block type tag, and as
\* blockData a block of any Go type, a header, or nil
BlockTypes ==
  {BlockTypeByronEbb, BlockTypeByronMain, BlockTypeConway, BlockTypeUnrecognized}
Shapes == {"ByronEpochBoundaryBlock", "ByronMainBlock", "Block"}
BlockValues ==
  {[kind |-> "Block", shape |-> sh, slot |-> 1, hash |-> HashOf(1)] : sh \in Shapes}
Payloads == BlockValues \cup {HeaderAt(1), NilBlock}

\* Runs of mainnet from genesis, streaming or in bulk
HandlerConfigs ==
  {ConfigureMagic(c).cfg :
     c \in {k \in Config : /\ k.Network = "mainnet" /\ k.Magic = 0
                           /\ k.StartEra = "genesis"
                           /\ ~k.Tip /\ ~k.BlockRange}}

DialTrace(c) ==
  <<CallEntry("Dial", <<TransportOf(c).networkType, TransportOf(c).address>>, 0),
    RetEntry("Dial", <<TransportOf(c).networkType, TransportOf(c).address>>, TRUE, 0)>>

\* main has started its mode and waits in select {}: Sync has returned nil, or
\* the range query, Stop and GetBlockRange have
HandlerInit ==
  /\ PingIdle
  /\ cfg \in HandlerConfigs
  /\ pc = "wait"
  /\ status = "running"
  /\ exitMsg = ""
  /\ intersectPoint = <<>>
  /\ oConn = "conn"
  /\ errHandler = TRUE
  /\ errorChan = NoError
  /\ dialed = TRUE
  /\ point = NewPointOrigin
  /\ nEvents = 0
  /\ pending = {}
  /\ IF ModeBranch(cfg) = "sync"
       THEN /\ sub = "active"
            /\ range = <<>>
            /\ fetchQueue = <<>>
            /\ trace = DialTrace(cfg)
                 \o <<CallEntry("Sync", <<point>>, 0),
                      RetEntry("Sync", <<NoError>>, TRUE, 0)>>
       ELSE /\ sub = "stopped"
            /\ range = <<PeerPoint(1), PeerTip>>
            /\ fetchQueue = SlotsFrom(1, MaxSlot)
            /\ trace = DialTrace(cfg)
                 \o <<CallEntry("GetAvailableBlockRange", <<point>>, 0),
                      RetEntry("GetAvailableBlockRange", range, TRUE, 0),
                      CallEntry("Stop", <<>>, 0),
                      RetEntry("Stop", <<>>, TRUE, 0),
                      CallEntry("GetBlockRange", FetchRangeArgs(range[1], range[2]), 0),
                      RetEntry("GetBlockRange", FetchRangeArgs(range[1], range[2]), TRUE, 0)>>

\* chainSyncRollForwardHandler called with any block type and any payload
HandlerRollForward ==
  /\ Running
  /\ sub = "active"
  /\ errorChan = NoError
  /\ ~HandlerBusy(pending)
  /\ nEvents < MaxCalls
  /\ \E blockType \in BlockTypes, blockData \in Payloads :
       chainSyncRollForwardHandler(blockType, blockData)
  /\ UNCHANGED fetchQueue
  /\ UNCHANGED mainVars
  /\ UNCHANGED pingVars

\* GetBlock returns any block, or nil, or fails
HandlerGetBlockReturn ==
  /\ Running
  /\ \E p \in pending, ok \in BOOLEAN, block \in BlockValues \cup {NilBlock} :
       /\ ~ok => block = NilBlock
       /\ AfterGetBlockReturn(p, ok, block)
  /\ UNCHANGED <<nEvents, fetchQueue>>
  /\ UNCHANGED mainVars
  /\ UNCHANGED pingVars

\* blockFetchBlockHandler called with any block type and any block or nil
HandlerBlockFetch ==
  /\ Running
  /\ errorChan = NoError
  /\ fetchQueue # <<>>
  /\ \E blockType \in BlockTypes, blockData \in BlockValues \cup {NilBlock} :
       blockFetchBlockHandler(blockType, blockData)
  /\ fetchQueue' = Tail(fetchQueue)
  /\ UNCHANGED <<status, exitMsg, errorChan, sub, nEvents, pending>>
  /\ UNCHANGED mainVars
  /\ UNCHANGED pingVars

HandlerNext ==
  \/ HandlerRollForward
  \/ HandlerGetBlockReturn
  \/ HandlerBlockFetch
  \/ ErrorHandler

HandlerSpec == HandlerInit /\ [][HandlerNext]_vars

\* ----------------------------------------------------------------- cmd/ping
PingSocketPaths == {"", "/ipc/node.socket"}
PingNetworks == {"", "mainnet", "bogus"}
\* type Config of cmd/ping
PingConfig ==
  [Magic : Magics, SocketPath : PingSocketPaths, Address : Addresses,
   Network : PingNetworks]
\* time.Since(start) of a call that was made
Durations == 1..MaxDuration

\* GetConnectionDetails with the socket preferred when both are given
GetConnectionDetails_SocketFirst(c) ==
  IF c.SocketPath # "" THEN <<"unix", c.SocketPath, FALSE>>
  ELSE IF c.Address # "" THEN <<"tcp", c.Address, TRUE>>
  ELSE <<"", "", FALSE>>

\* GetConnectionDetails(cfg) (string, string, bool)
GetConnectionDetails(c) ==
  IF c.Address # "" THEN <<"tcp", c.Address, TRUE>>
  ELSE IF c.SocketPath # "" THEN <<"unix", c.SocketPath, FALSE>>
  ELSE <<"", "", FALSE>>

\* fmt.Errorf("<prefix>%w", err)
Errorf(prefix, err) == prefix \o err

ErrNoDetails ==
  "no connection details provided, must specify either socket path or TCP address"
ErrDial == "dial failed"
ErrTip == "tip query failed"
ErrNewConnection == "NewConnection failed"

\* NewConnection(cfg): the configuration it leaves and the connection or error
NewConnection(c, libErr) ==
  IF c.Magic = 0 /\ ~NetworkByName(c.Network).ok
    THEN [cfg |-> c, conn |-> NilConn,
          err |-> Errorf("invalid network specified: ", c.Network)]
    ELSE LET c2 == IF c.Magic = 0
                     THEN [c EXCEPT !.Magic = NetworkByName(c.Network).NetworkMagic]
                     ELSE c
         IN  IF libErr # NoError
               THEN [cfg |-> c2, conn |-> NilConn, err |-> libErr]
               ELSE [cfg |-> c2,
                     conn |-> [nil |-> FALSE, NetworkMagic |-> c2.Magic,
                               NodeToNode |-> GetConnectionDetails(c2)[3]],
                     err |-> NoError]

\* a call made on the connection, and the time it took
ConnCall(op, arg, ok, took) == [op |-> op, arg |-> arg, ok |-> ok, took |-> took]

\* PingNode that queries the tip although Dial failed
PingNode_TipAfterFailedDial(c, dialErr, tipErr, connTime, protoTime) ==
  LET d == GetConnectionDetails(c)
      dial == ConnCall("Dial", <<d[1], d[2]>>, dialErr = NoError, connTime)
      tip == ConnCall("getTip", <<>>, tipErr = NoError, protoTime)
  IN  IF ~d[3]
        THEN [result |-> [NoResult EXCEPT !.Error = ErrNoDetails], calls |-> <<>>]
      ELSE IF dialErr # NoError
        THEN [result |-> [NoResult EXCEPT !.Error = Errorf("connection failed: ", dialErr)],
              calls |-> <<dial, tip>>]
      ELSE IF tipErr # NoError
        THEN [result |-> [ConnectionTime |-> connTime, ProtocolTime |-> 0,
                          Error |-> Errorf("protocol error: ", tipErr)],
              calls |-> <<dial, tip>>]
      ELSE [result |-> [ConnectionTime |-> connTime, ProtocolTime |-> protoTime,
                        Error |-> NoError],
            calls |-> <<dial, tip>>]

\* PingNode that reports a protocol error without the connection time
PingNode_DropsConnTime(c, dialErr, tipErr, connTime, protoTime) ==
  LET d == GetConnectionDetails(c)
      dial == ConnCall("Dial", <<d[1], d[2]>>, dialErr = NoError, connTime)
      tip == ConnCall("getTip", <<>>, tipErr = NoError, protoTime)
  IN  IF ~d[3]
        THEN [result |-> [NoResult EXCEPT !.Error = ErrNoDetails], calls |-> <<>>]
      ELSE IF dialErr # NoError
        THEN [result |-> [NoResult EXCEPT !.Error = Errorf("connection failed: ", dialErr)],
              calls |-> <<dial>>]
      ELSE IF tipErr # NoError
        THEN [result |-> [NoResult EXCEPT !.Error = Errorf("protocol error: ", tipErr)],
              calls |-> <<dial, tip>>]
      ELSE [result |-> [ConnectionTime |-> connTime, ProtocolTime |-> protoTime,
                        Error |-> NoError],
            calls |-> <<dial, tip>>]

\* PingNode(conn, cfg): its PingResult and the calls it makes on conn, for the
\* errors of Dial and getTip and the times the two calls take
PingNode(c, dialErr, tipErr, connTime, protoTime) ==
  LET d == GetConnectionDetails(c)
      dial == ConnCall("Dial", <<d[1], d[2]>>, dialErr = NoError, connTime)
      tip == ConnCall("getTip", <<>>, tipErr = NoError, protoTime)
  IN  IF ~d[3]
        THEN [result |-> [NoResult EXCEPT !.Error = ErrNoDetails], calls |-> <<>>]
      ELSE IF dialErr # NoError
        THEN [result |-> [NoResult EXCEPT !.Error = Errorf("connection failed: ", dialErr)],
              calls |-> <<dial>>]
      ELSE IF tipErr # NoError
        THEN [result |-> [ConnectionTime |-> connTime, ProtocolTime |-> 0,
                          Error |-> Errorf("protocol error: ", tipErr)],
              calls |-> <<dial, tip>>]
      ELSE [result |-> [ConnectionTime |-> connTime, ProtocolTime |-> protoTime,
                        Error |-> NoError],
            calls |-> <<dial, tip>>]

\* main of cmd/ping: connType
ConnType(c) == IF c.SocketPath # "" THEN "UNIX socket" ELSE "Node-to-Node"

PingInit ==
  /\ pingCfg \in PingConfig
  /\ PingStart
  /\ cfg = [SocketPath |-> "/ipc/node.socket", Address |-> "", Network |-> "",
            Magic |-> 0, StartEra |-> "genesis", Tip |-> FALSE, Bulk |-> FALSE,
            BlockRange |-> FALSE]
  /\ ChainSyncStart

\* conn, err := NewConnection(&cfg); defer conn.Close()
PingMainNewConnection ==
  /\ pingPc = "new"
  /\ \E libErr \in {NoError, ErrNewConnection} :
       LET n == NewConnection(pingCfg, libErr)
       IN  /\ pingCfg' = n.cfg
           /\ pingConn' = n.conn
           /\ IF n.err # NoError
                THEN /\ output' = output \o <<[kind |-> "Connection error", error |-> n.err]>>
                     /\ pingPc' = "done"
                ELSE /\ pingPc' = "ping"
                     /\ UNCHANGED output
  /\ UNCHANGED <<connCalls, result>>
  /\ UNCHANGED chainSyncVars

\* result := PingNode(conn, &cfg)
PingMainPingNode ==
  /\ pingPc = "ping"
  /\ \E dialErr \in {NoError, ErrDial}, tipErr \in {NoError, ErrTip},
        connTime \in Durations, protoTime \in Durations :
       LET r == PingNode(pingCfg, dialErr, tipErr, connTime, protoTime)
       IN  /\ result' = r.result
           /\ connCalls' = connCalls \o r.calls
  /\ pingPc' = "report"
  /\ UNCHANGED <<pingCfg, pingConn, output>>
  /\ UNCHANGED chainSyncVars

\* main prints the failure or the results and returns; the deferred
\* conn.Close() runs
PingMainReport ==
  /\ pingPc = "report"
  /\ output' = output \o
       (IF result.Error # NoError
          THEN <<[kind |-> "Ping failed", error |-> result.Error]>>
          ELSE <<[kind |-> "Ping Results", connType |-> ConnType(pingCfg),
                  ConnectionTime |-> result.ConnectionTime,
                  ProtocolTime |-> result.ProtocolTime]>>)
  /\ connCalls' = connCalls \o <<ConnCall("Close", <<>>, TRUE, 0)>>
  /\ pingPc' = "done"
  /\ UNCHANGED <<pingCfg, pingConn, result>>
  /\ UNCHANGED chainSyncVars

PingNext ==
  \/ PingMainNewConnection
  \/ PingMainPingNode
  \/ PingMainReport

PingSpec == PingInit /\ [][PingNext]_vars



\* ------------------------------------------------------------------- claims
\* positions of the trace
CallsOf(op) == {i \in DOMAIN trace : trace[i].t = "call" /\ trace[i].op = op}
RetsOf(op, ok) ==
  {i \in DOMAIN trace : trace[i].t = "ret" /\ trace[i].op = op /\ trace[i].ok = ok}
BulkPcs == {"bulkrange", "bulkstop", "bulkfetch"}
ModePcs == {"range", "sync", "wait"} \cup BulkPcs

\* C1: a range fetch (GetBlockRange) is issued only after Stop has returned
\* without error; when Stop returns an error the run ends there (os.Exit(1))
\* and no range fetch is ever issued.
C1_FetchRangeAfterStop ==
  /\ \A i \in CallsOf("GetBlockRange") : \E j \in RetsOf("Stop", TRUE) : j < i
  /\ RetsOf("Stop", FALSE) # {} =>
       /\ status = "exit1"
       /\ exitMsg = "failed to shutdown chain-sync"
       /\ CallsOf("GetBlockRange") = {}
       /\ fetchQueue = <<>>

C1_Witness ==
  /\ CallsOf("GetBlockRange") # {}
  /\ RetsOf("Stop", TRUE) # {}

\* C2: in one run Sync and GetBlockRange are never both called, and each is
\* called at most once.
C2_OneModePerRun ==
  /\ Cardinality(CallsOf("Sync")) <= 1
  /\ Cardinality(CallsOf("GetBlockRange")) <= 1
  /\ ~(CallsOf("Sync") # {} /\ CallsOf("GetBlockRange") # {})

C2_Witness ==
  /\ RetsOf("Sync", TRUE) # {}
  /\ pc = "wait"
  /\ nEvents = MaxEvents

C4_BulkOnlyNtN ==
  (CallsOf("Stop") # {} \/ CallsOf("GetBlockRange") # {} \/ pc \in BulkPcs) =>
    /\ cfg.Bulk
    /\ cfg.Address # ""
    /\ \A i \in CallsOf("Dial") : trace[i].arg = <<"tcp", cfg.Address>>

C4_Witness ==
  /\ RetsOf("Stop", TRUE) # {}
  /\ RetsOf("GetBlockRange", TRUE) # {}
  /\ cfg.Bulk /\ cfg.Address # ""

\* C5 as stated: a configuration with both -range and -bulk is rejected: none
\* of the range query, the subscription and the range fetch runs, and the run
\* does not end in success.
C5_RangeWithBulkRejected ==
  (cfg.BlockRange /\ cfg.Bulk) =>
    /\ CallsOf("GetAvailableBlockRange") = {}
    /\ CallsOf("Sync") = {}
    /\ CallsOf("GetBlockRange") = {}
    /\ status # "returned"

\* C5 as amended: with both -range and -bulk the range flag wins: the run
\* takes the range branch, makes one range query and then ends (returns when
\* the query succeeded, exits with its error otherwise); Sync, Stop and
\* GetBlockRange are never called.
C5_RangeWinsOverBulk ==
  (cfg.BlockRange /\ cfg.Bulk) =>
    /\ pc \in ModePcs => pc = "range"
    /\ Cardinality(CallsOf("GetAvailableBlockRange")) <= 1
    /\ RetsOf("GetAvailableBlockRange", TRUE) # {} => status = "returned"
    /\ RetsOf("GetAvailableBlockRange", FALSE) # {} =>
         /\ status = "exit1"
         /\ exitMsg \in {RangeQueryFailedMsg(ErrIntersectNotFound),
                         RangeQueryFailedMsg(ErrProtocol)}
    /\ status = "returned" => RetsOf("GetAvailableBlockRange", TRUE) # {}
    /\ CallsOf("Sync") = {}
    /\ CallsOf("Stop") = {}
    /\ CallsOf("GetBlockRange") = {}

C5_Witness ==
  /\ cfg.BlockRange /\ cfg.Bulk
  /\ cfg.Address # ""
  /\ status = "returned"
  /\ RetsOf("GetAvailableBlockRange", TRUE) # {}

\* roll-forward events of the trace that carry only a header
HeaderEvents ==
  {i \in DOMAIN trace : /\ trace[i].t = "event"
                        /\ trace[i].op = "forward"
                        /\ trace[i].arg.kind = "BlockHeader"}
Deliveries == {i \in DOMAIN trace : trace[i].t = "deliver"}
\* the consumer's lines that show a block
BlockDeliveries == {i \in Deliveries : trace[i].op # "rollback"}
DeliveriesOf(e) == {i \in Deliveries : trace[i].ev = e}
GetBlockCallsOf(e) == {j \in CallsOf("GetBlock") : trace[j].ev = e}

\* C6: for every header-only roll-forward event the handler issues exactly
\* one GetBlock, for the point (slot, hash) of that header, and the block of
\* the event is printed only after that GetBlock has returned without error.
C6_HeaderFetchedOnceThenDelivered ==
  /\ \A i \in HeaderEvents :
       LET e == trace[i].ev
       IN  /\ Cardinality(GetBlockCallsOf(e)) = 1
           /\ \A j \in GetBlockCallsOf(e) :
                /\ j > i
                /\ trace[j].arg = NewPoint(trace[i].arg.slot, trace[i].arg.hash)
                /\ \A k \in DeliveriesOf(e) :
                     /\ trace[k].arg = trace[i].arg.slot
                     /\ \E r \in RetsOf("GetBlock", TRUE) :
                          trace[r].ev = e /\ j < r /\ r < k
  /\ \A j \in CallsOf("GetBlock") : \E i \in HeaderEvents : trace[i].ev = trace[j].ev

C6_Witness ==
  \E i \in HeaderEvents : DeliveriesOf(trace[i].ev) # {}

FailedFetches == RetsOf("GetBlock", FALSE)

C7_NothingDeliveredAfterFailedFetch ==
  \A j \in FailedFetches :
    /\ DeliveriesOf(trace[j].ev) = {}
    /\ \A k \in DOMAIN trace : k > j => trace[k].t \notin {"deliver", "event", "call"}
    /\ errorChan = ErrGetBlock
    /\ sub = "stopped"
    /\ status \in {"running", "exit1"}
    /\ status = "exit1" => exitMsg = ErrGetBlock

SubEvents == {i \in DOMAIN trace : trace[i].t = "event" /\ trace[i].ev > 0}

\* C8: the consumer sees the events in the order the subscription produced
\* them, also when a header needs a block fetch: lines appear in the order
\* of their events, each shows its own event, and nothing of another event
\* happens between an event and its line.
C8_DeliveredInStreamOrder ==
  /\ \A i, k \in Deliveries :
       (i < k /\ trace[i].ev > 0 /\ trace[k].ev > 0) => trace[i].ev < trace[k].ev
  /\ \A i \in SubEvents : \A k \in DeliveriesOf(trace[i].ev) :
       /\ i < k
       /\ \A j \in DOMAIN trace : (i < j /\ j < k) => trace[j].ev = trace[i].ev
       /\ IF trace[i].op = "rollback"
            THEN trace[k].op = "rollback" /\ trace[k].arg = trace[i].arg
            ELSE trace[k].op # "rollback" /\ trace[k].arg = trace[i].arg.slot
  /\ Cardinality(pending) <= 1

\* the stream [rollback(P), forward(B1), forward(B2)] of headers, all delivered
C8_Witness ==
  /\ TransportOf(cfg).isNtN
  /\ Cardinality(SubEvents) = 3
  /\ \A i \in SubEvents :
       /\ trace[i].op = (IF trace[i].ev = 1 THEN "rollback" ELSE "forward")
       /\ DeliveriesOf(trace[i].ev) # {}
  /\ Cardinality(HeaderEvents) = 2

\* roll-forward callbacks that returned nil
ForwardOk == RetsOf("RollForward", TRUE)
RangeBlocks == {i \in DOMAIN trace : trace[i].t = "event" /\ trace[i].op = "block"}

\* C9: every roll-forward event whose handler returns nil has its block
\* printed exactly once, before the handler returns; a handler that returns
\* an error prints nothing; and the consumer sees no other block lines than
\* these and one per block of a range fetch.
C9_OneDeliveryPerRollForward ==
  /\ \A r \in ForwardOk :
       /\ Cardinality(DeliveriesOf(trace[r].ev)) = 1
       /\ \A k \in DeliveriesOf(trace[r].ev) : k < r
  /\ \A r \in RetsOf("RollForward", FALSE) : DeliveriesOf(trace[r].ev) = {}
  /\ Cardinality(BlockDeliveries) = Cardinality(ForwardOk) + Cardinality(RangeBlocks)

C9_Witness ==
  /\ Cardinality(ForwardOk) = MaxEvents
  /\ \E r \in ForwardOk : RetsOf("GetBlock", TRUE) # {}

\* the run has entered streaming or fetching
LiveAt(i) ==
  \E j \in RetsOf("Sync", TRUE) \cup RetsOf("GetBlockRange", TRUE) : j < i
Errors == {i \in DOMAIN trace : trace[i].t = "error"}

C10_NoCallAfterLiveError ==
  /\ \A i \in Errors : LiveAt(i) =>
       /\ \A k \in DOMAIN trace : k > i => trace[k].t # "call"
       /\ errorChan = trace[i].op
       /\ status \in {"running", "exit1"}
       /\ status = "exit1" => exitMsg = trace[i].op
  /\ Cardinality(CallsOf("Dial")) <= 1

\* C10: once Sync or GetBlockRange has succeeded, an error (returned by a
\* callback or reported by the connection on the error channel) ends the run
\* with os.Exit(1) reporting it, and after the error no library call is made
\* any more (no Dial, Sync, GetBlock or GetBlockRange); Dial is called at most
\* once in a run.
C10_LiveErrorIsFatal ==
  /\ []C10_NoCallAfterLiveError
  /\ (\E i \in Errors : LiveAt(i)) ~> (status = "exit1")

C10_Witness ==
  /\ \E i \in Errors : LiveAt(i) /\ trace[i].op = ErrConnection
  /\ status = "exit1"
  /\ RetsOf("GetBlockRange", TRUE) # {}

\* ----------------------------------------------------------------- C11
\* the messages of the configuration and resolution errors: an invalid
\* network, an era of an unknown network, an unknown era, and an intersect
\* point that is not on the peer's chain
ResolutionErrorMsgs ==
  {ErrInvalidNetwork, ErrOnlyGenesis, ErrUnknownEra,
   RangeQueryFailedMsg(ErrIntersectNotFound), SyncFailedMsg(ErrIntersectNotFound)}
EndedWithResolutionError == status = "exit1" /\ exitMsg \in ResolutionErrorMsgs

\* C11: when the run ends with a configuration or resolution error, no sync
\* subscription and no range fetch has been started, and no connection is left
\* open: Dial was never called, or the connection was closed.
C11_ResolutionErrorLeavesNoConnection ==
  EndedWithResolutionError =>
    /\ RetsOf("Sync", TRUE) = {}
    /\ CallsOf("GetBlockRange") = {}
    /\ (CallsOf("Dial") = {} \/ CallsOf("Close") # {})

\* the part of C11 the program keeps: nothing is subscribed or fetched
C11_ResolutionErrorBeforeSubscription ==
  EndedWithResolutionError =>
    /\ RetsOf("Sync", TRUE) = {}
    /\ CallsOf("GetBlockRange") = {}
    /\ sub = "none"
    /\ nEvents = 0

\* the intersect point is not found after Dial succeeded, and the run ends
C11_Witness ==
  /\ EndedWithResolutionError
  /\ exitMsg = RangeQueryFailedMsg(ErrIntersectNotFound)
  /\ RetsOf("Dial", TRUE) # {}
  /\ dialed
  /\ cfg.Bulk /\ ~cfg.BlockRange

\* ----------------------------------------------------------------- C12
\* main has passed the era lookup of lines 240-256
EraLookedUp == pc # "configure" /\ exitMsg # ErrInvalidNetwork
EraErrorMsgs == {ErrOnlyGenesis, ErrUnknownEra}
\* main has chosen its start point
StartPointChosen == pc \notin {"configure", "connect", "dial", "startpoint"} /\ dialed

\* C12: for every network that is not in the era table, the lookup of
\* "genesis" succeeds with the empty intersect point, which gives the origin as
\* start point, and the lookup of any other era ends the run with the error
\* "only 'genesis' is supported for -start-era for unknown networks".
C12_UnknownNetworkOnlyGenesis ==
  /\ \A n \in Networks, e \in StartEras : ~NetworkRegistered(n) =>
       IF e = "genesis"
         THEN /\ ResolveEra(n, e).ok
              /\ PointOfIntersect(ResolveEra(n, e).intersectPoint) = NewPointOrigin
         ELSE /\ ~ResolveEra(n, e).ok
              /\ ResolveEra(n, e).err = ErrOnlyGenesis
  /\ (EraLookedUp /\ ~NetworkRegistered(cfg.Network)) =>
       IF cfg.StartEra = "genesis"
         THEN /\ intersectPoint = <<>>
              /\ exitMsg \notin EraErrorMsgs
              /\ (StartPointChosen /\ ~cfg.Tip) => point = NewPointOrigin
         ELSE /\ status = "exit1"
              /\ exitMsg = ErrOnlyGenesis
              /\ pc = "end"

\* a run on a network that is not in the table has started at the origin
C12_Witness ==
  /\ ~NetworkRegistered(cfg.Network)
  /\ cfg.StartEra = "genesis" /\ ~cfg.Tip
  /\ \E i \in CallsOf("Sync") : trace[i].arg = <<NewPointOrigin>>
  /\ RetsOf("Sync", TRUE) # {}

\* ----------------------------------------------------------------- C13
\* C13: for a network of the era table, the lookup of an era that the table
\* does not have for that network ends the run with the error "unknown era
\* specified as chain-sync start point", before a connection is created (no
\* error handler started, oConn nil) or dialed (no library call made at all).
C13_UnknownEraBeforeConnection ==
  /\ \A n \in Networks, e \in StartEras :
       (NetworkRegistered(n) /\ ~EraRegistered(n, e)) =>
         /\ ~ResolveEra(n, e).ok
         /\ ResolveEra(n, e).err = ErrUnknownEra
  /\ (EraLookedUp /\ NetworkRegistered(cfg.Network)
        /\ ~EraRegistered(cfg.Network, cfg.StartEra)) =>
       /\ status = "exit1"
       /\ exitMsg = ErrUnknownEra
       /\ pc = "end"
       /\ oConn = "nil"
       /\ ~errHandler
       /\ ~dialed
       /\ trace = <<>>

\* a run for an era that mainnet does not have has ended
C13_Witness ==
  /\ cfg.Network = "mainnet"
  /\ cfg.StartEra = "bogus"
  /\ status = "exit1"
  /\ exitMsg = ErrUnknownEra

\* ----------------------------------------------------------------- C14
\* the eras whose start is the origin of the chain by their name
OriginEras == {"genesis", "byron"}
TableEntries ==
  UNION {{<<n, e>> : e \in DOMAIN eraIntersect[n]} : n \in DOMAIN eraIntersect}
\* an entry with a slot and a hash of 64 hex digits
HasPoint(ip) ==
  /\ Len(ip) = 2
  /\ ip[1] \in Nat /\ ip[1] > 0
  /\ Len(ip[2]) = 64
  /\ \A k \in 1..64 : ip[2][k] \in DOMAIN HexDigits
\* the entries of eras after byron that the table leaves empty
EmptyLaterEntries == {<<"preprod", "alonzo">>, <<"preview", "alonzo">>}
\* main has taken its start point from the era table
StartedFromTable == StartPointChosen /\ ~cfg.Tip /\ NetworkRegistered(cfg.Network)

\* C14 as stated: the entries of "genesis" and "byron" have no point, every
\* entry of a later era has a slot and a hash, and so a run from a later era
\* never starts at the origin.
C14_LaterErasHavePoints ==
  /\ \A ne \in TableEntries :
       IF ne[2] \in OriginEras
         THEN eraIntersect[ne[1]][ne[2]] = <<>>
         ELSE HasPoint(eraIntersect[ne[1]][ne[2]])
  /\ StartedFromTable =>
       (point = NewPointOrigin <=> cfg.StartEra \in OriginEras)

\* C14: in the era table the entries of "genesis" and "byron" have no point;
\* the entries of "alonzo" for preprod and preview have no point either; every
\* other entry of a later era has a positive slot and a hash of 64 hex digits.
\* A run that takes its start point from the table starts at the origin
\* exactly when its entry has no point, and at the entry's slot otherwise.
C14_LaterErasHavePointsButFirstAlonzo ==
  /\ \A ne \in TableEntries :
       IF ne[2] \in OriginEras \/ ne \in EmptyLaterEntries
         THEN eraIntersect[ne[1]][ne[2]] = <<>>
         ELSE HasPoint(eraIntersect[ne[1]][ne[2]])
  /\ StartedFromTable =>
       /\ intersectPoint = eraIntersect[cfg.Network][cfg.StartEra]
       /\ (point = NewPointOrigin <=>
             (cfg.StartEra \in OriginEras
                \/ <<cfg.Network, cfg.StartEra>> \in EmptyLaterEntries))
       /\ point # NewPointOrigin => point.Slot = intersectPoint[1]

\* a run from preprod's alonzo, an era after byron, has started at the origin
C14_Witness ==
  /\ StartedFromTable
  /\ cfg.Network = "preprod" /\ cfg.StartEra = "alonzo"
  /\ intersectPoint = <<>>
  /\ \E i \in CallsOf("Sync") : trace[i].arg = <<NewPointOrigin>>

\* ----------------------------------------------------------------- C15
\* GetCurrentTip has returned the peer's tip
TipTaken == cfg.Tip /\ RetsOf("GetCurrentTip", TRUE) # {}
\* the points given to Sync and GetAvailableBlockRange
StartArgs ==
  {trace[i].arg : i \in CallsOf("Sync") \cup CallsOf("GetAvailableBlockRange")}

\* C15 as stated: with -tip the start point is the peer's tip and the era is
\* ignored: whatever the era, registered or not, no era error ends the run.
C15_TipIgnoresEra ==
  (cfg.Tip /\ EraLookedUp) =>
    /\ exitMsg \notin EraErrorMsgs
    /\ TipTaken => point = PeerTip

\* C15: the era is looked up before -tip is read. With -tip, an era that the
\* lookup refuses still ends the run with the era error, before any call of
\* the library; for every era the lookup accepts, the start point is the tip
\* returned by GetCurrentTip, whatever the entry of the era in the table, and
\* it is the point given to Sync and GetAvailableBlockRange.
C15_TipIgnoresAcceptedEra ==
  /\ \A ne \in TableEntries :
       StartPoint([cfg EXCEPT !.Tip = TRUE], eraIntersect[ne[1]][ne[2]], PeerTip)
         = PeerTip
  /\ (cfg.Tip /\ EraLookedUp) =>
       /\ ~ResolveEra(cfg.Network, cfg.StartEra).ok =>
            /\ status = "exit1"
            /\ exitMsg = ResolveEra(cfg.Network, cfg.StartEra).err
            /\ trace = <<>>
       /\ TipTaken => point = PeerTip
       /\ StartArgs \subseteq {<<PeerTip>>}
       /\ StartArgs # {} => TipTaken

\* with -tip and the era shelley of mainnet, Sync has started at the tip
C15_Witness ==
  /\ TipTaken
  /\ cfg.Network = "mainnet" /\ cfg.StartEra = "shelley"
  /\ intersectPoint # <<>>
  /\ \E i \in RetsOf("Sync", TRUE) : trace[i - 1].arg = <<PeerTip>>

\* ----------------------------------------------------------------- C16
\* the origin, or a point with a hash of 32 bytes
WellFormedPoint(p) ==
  \/ p = NewPointOrigin
  \/ /\ Len(p.Hash) = 32
     /\ \A k \in 1..32 : p.Hash[k] \in 0..255

\* C16: every start point made from an entry of the era table is the origin
\* (empty hash) or has a hash of exactly 32 bytes, and so has the start point
\* of every run that does not start at the tip.
C16_TablePointsHave32ByteHash ==
  /\ pc = "configure" =>
       \A ne \in TableEntries :
         WellFormedPoint(PointOfIntersect(eraIntersect[ne[1]][ne[2]]))
  /\ (StartPointChosen /\ ~cfg.Tip) =>
       /\ WellFormedPoint(point)
       /\ point = PointOfIntersect(intersectPoint)
       /\ StartArgs \subseteq {<<point>>}

\* a run from mainnet's babbage has given its point, with the decoded hash, to
\* the peer
C16_Witness ==
  /\ StartedFromTable
  /\ cfg.Network = "mainnet" /\ cfg.StartEra = "babbage"
  /\ point.Slot = 72316796
  /\ Len(point.Hash) = 32
  /\ point.Hash[1] = 197 /\ point.Hash[32] = 32
  /\ StartArgs = {<<point>>}

\* ----------------------------------------------------------------- C17
RangeQueries == CallsOf("GetAvailableBlockRange")

UnknownBlockType == "unknown block type"
UnknownTagForwards ==
  {i \in DOMAIN trace : /\ trace[i].t = "event"
                        /\ trace[i].op = "forward"
                        /\ trace[i].blockType = BlockTypeUnrecognized}
UnknownTagBlocks ==
  {i \in DOMAIN trace : /\ trace[i].t = "event"
                        /\ trace[i].op = "block"
                        /\ trace[i].blockType = BlockTypeUnrecognized}
RollForwardRetsOf(e) ==
  {j \in DOMAIN trace : trace[j].t = "ret" /\ trace[j].op = "RollForward" /\ trace[j].ev = e}

\* C18 as stated: a roll-forward or a fetched block with a block type that is
\* not a known one makes the handler fail with UnknownBlockType: nothing is
\* printed for it, and the error is returned.
C18_UnknownTagFails ==
  /\ \A i \in UnknownTagForwards :
       /\ DeliveriesOf(trace[i].ev) = {}
       /\ \A j \in RollForwardRetsOf(trace[i].ev) :
            ~trace[j].ok /\ trace[j].arg = UnknownBlockType
  /\ \A i \in UnknownTagBlocks :
       /\ (i + 1) \in DOMAIN trace => trace[i + 1].t # "deliver"
       /\ errorChan = UnknownBlockType

\* C18: the handlers have no error for an unknown block type. The roll-forward
\* handler treats every block type but the two Byron ones alike, an
\* unrecognized one included: a block is printed once with the name of its own
\* era and nil returned, and only a missing block (nil) or a failed GetBlock
\* makes the handler return an error ("block is nil", or the error of
\* GetBlock); it never panics for such a type. The handler of fetched blocks
\* does not read the block type: it prints by the Go type of the block, prints
\* nothing for nil, and returns nil.
C18_UnknownTagShownAsItsEra ==
  /\ \A b \in BlockValues \cup {NilBlock} :
       Display(BlockTypeUnrecognized, b) = Display(BlockTypeConway, b)
  /\ \A i \in UnknownTagForwards :
       LET e == trace[i].ev
       IN  /\ \A j \in RollForwardRetsOf(e) :
                IF trace[j].ok
                  THEN /\ Cardinality(DeliveriesOf(e)) = 1
                       /\ \A k \in DeliveriesOf(e) : trace[k].op = "Era" /\ k < j
                  ELSE /\ DeliveriesOf(e) = {}
                       /\ trace[j].arg \in {ErrBlockNil, ErrGetBlock}
           /\ trace[i].arg.kind = "Block" =>
                \E j \in RollForwardRetsOf(e) : trace[j].ok /\ j = i + 2
           /\ RollForwardRetsOf(e) = {} =>
                /\ status = "running"
                /\ \E p \in pending : p.ev = e
  /\ \A i \in UnknownTagBlocks :
       LET pr == BlockFetchDisplay(trace[i].arg)
       IN  /\ \A k \in 1..Len(pr) :
                /\ (i + k) \in DOMAIN trace
                /\ trace[i + k].t = "deliver"
                /\ trace[i + k].op = pr[k]
           /\ (i + Len(pr) + 1) \in DOMAIN trace => trace[i + Len(pr) + 1].t # "deliver"
           /\ errorChan = NoError
           /\ status = "running"
  /\ errorChan # UnknownBlockType

\* a block with an unrecognized type has been printed with its era's name,
\* and the handler has returned nil
C18_Witness ==
  \E i \in UnknownTagForwards :
    /\ trace[i].arg.kind = "Block"
    /\ trace[i].arg.shape = "Block"
    /\ \E k \in DeliveriesOf(trace[i].ev) : trace[k].op = "Era"
    /\ \E j \in RollForwardRetsOf(trace[i].ev) : trace[j].ok

\* ----------------------------------------------------------------- C19
RangeFetches == CallsOf("GetBlockRange")
\* the start point main resolves for its configuration
ResolvedStartPoint == IF cfg.Tip THEN PeerTip ELSE PointOfIntersect(intersectPoint)

\* C19: a run makes at most one GetBlockRange call, and a run of bulk mode
\* that reaches select {} exactly one; its bounds are the (start, end) pair
\* returned by the one GetAvailableBlockRange call before it, which was made
\* for the resolved start point; the range query comes before Stop.
C19_BulkFetchesQueriedRange ==
  /\ Cardinality(RangeFetches) <= 1
  /\ (pc = "wait" /\ ModeBranch(cfg) = "bulkrange") => Cardinality(RangeFetches) = 1
  /\ \A i \in RangeFetches :
       /\ Cardinality(RangeQueries) = 1
       /\ \E q \in RetsOf("GetAvailableBlockRange", TRUE), st \in RetsOf("Stop", TRUE) :
            /\ q < st - 1
            /\ st < i
            /\ trace[q - 1].arg = <<ResolvedStartPoint>>
            /\ trace[i].arg = trace[q].arg
            /\ trace[i].arg[1].Slot <= trace[i].arg[2].Slot
  /\ \A st \in CallsOf("Stop") :
       \E q \in RetsOf("GetAvailableBlockRange", TRUE) : q < st

\* a bulk run from the tip has requested a range of more than one block
C19_Witness ==
  /\ cfg.Tip
  /\ pc = "wait"
  /\ \E i \in RetsOf("GetBlockRange", TRUE) :
       /\ trace[i].arg[1] # trace[i].arg[2]
       /\ trace[i].arg = range

\* ----------------------------------------------------------------- C20
\* C20: in a run with -range, whatever -bulk and the transport are, the range
\* query is the last thing the run does: once it has returned the run has
\* ended (returning after a successful query, exiting with the error
\* otherwise); Sync, Stop and GetBlockRange are never called, no subscription
\* exists and no callback runs.
C20_RangeIsTerminal ==
  cfg.BlockRange =>
    /\ CallsOf("Sync") \cup CallsOf("Stop") \cup RangeFetches = {}
    /\ Cardinality(RangeQueries) <= 1
    /\ \A q \in RangeQueries :
         /\ Len(trace) = q + 1
         /\ pc = "end"
         /\ status = (IF trace[q + 1].ok THEN "returned" ELSE "exit1")
    /\ pc \notin {"sync", "wait"} \cup BulkPcs
    /\ sub = "none"
    /\ nEvents = 0
    /\ fetchQueue = <<>>

\* a run with -range alone over the local socket has returned after its query
C20_Witness ==
  /\ cfg.BlockRange /\ ~cfg.Bulk
  /\ ~TransportOf(cfg).isNtN
  /\ status = "returned"
  /\ RetsOf("GetAvailableBlockRange", TRUE) # {}

\* ----------------------------------------------------------------- C21
\* Sync or GetBlockRange has returned nil
ModeStarted == RetsOf("Sync", TRUE) \cup RetsOf("GetBlockRange", TRUE) # {}

\* C21: once Sync or GetBlockRange has returned nil, main stays in select {}:
\* it never returns, and the run ends only by os.Exit(1) of the error handler
\* for an error of the error channel; while no error has arrived the run goes
\* on, also when every block of a bulk range has been printed.
C21_MainWaitsForever ==
  ModeStarted =>
    /\ pc = "wait"
    /\ status \in {"running", "exit1"}
    /\ status = "exit1" => (errorChan # NoError /\ exitMsg = errorChan)
    /\ errorChan = NoError => status = "running"

\* every block of a bulk range has been printed and the run goes on
C21_Witness ==
  /\ RetsOf("GetBlockRange", TRUE) # {}
  /\ Len(range) = 2
  /\ fetchQueue = <<>>
  /\ Cardinality(RangeBlocks) = range[2].Slot - range[1].Slot + 1
  /\ errorChan = NoError
  /\ status = "running"
  /\ pc = "wait"

\* ----------------------------------------------------------------- C22
RollbackEvents ==
  {i \in DOMAIN trace : trace[i].t = "event" /\ trace[i].op = "rollback"}
\* the step is a call of the roll-backward handler
RollbackStep ==
  /\ Len(trace') > Len(trace)
  /\ trace'[Len(trace) + 1].t = "event"
  /\ trace'[Len(trace) + 1].op = "rollback"

C22_RollbackOnlyPrinted ==
  \A i \in RollbackEvents :
    /\ (i + 2) \in DOMAIN trace
    /\ trace[i + 1] = DeliverEntry("rollback", trace[i].arg, trace[i].ev)
    /\ trace[i + 2] = RetEntry("RollBackward", NoError, TRUE, trace[i].ev)
    /\ \A k \in DOMAIN trace : trace[k].t = "call" => trace[k].ev # trace[i].ev

\* C22: a call of the roll-backward handler prints the rollback point and the
\* peer's tip once and returns nil; it makes no GetBlock, Stop, Sync or
\* GetBlockRange call, and leaves the state of main, the subscription, the
\* outstanding fetches, the requested range and the error channel as they
\* were.
C22_RollbackHasNoEffect ==
  /\ []C22_RollbackOnlyPrinted
  /\ [][RollbackStep =>
          /\ UNCHANGED <<mainVars, sub, pending, fetchQueue, errorChan, status, exitMsg>>
          /\ Len(trace') = Len(trace) + 3]_vars

\* a rollback has been printed between two blocks of a streaming run
C22_Witness ==
  \E i \in RollbackEvents :
    /\ trace[i].arg = [point |-> point, tip |-> PeerTip]
    /\ trace[i + 1].t = "deliver"
    /\ trace[i].ev = 2
    /\ \E j \in ForwardOk : j > i
    /\ \E j \in ForwardOk : j < i

\* ----------------------------------------------------------------- C23
Dials == {i \in DOMAIN connCalls : connCalls[i].op = "Dial"}
TipQueries == {i \in DOMAIN connCalls : connCalls[i].op = "getTip"}

\* C23: when a network address is configured, with or without a socket path,
\* it is what is dialed, as "tcp", and the connection is made node-to-node;
\* the socket path is chosen, as "unix" and node-to-client, only when the
\* address is empty; so whenever Dial is called its network type is "tcp"
\* exactly when the connection was made with the node-to-node option. This
\* holds for GetConnectionDetails of cmd/ping and for main of cmd/chain-sync.
C23_AddressTakesPrecedence ==
  /\ pingPc = "new" =>
       /\ \A c \in PingConfig :
            /\ c.Address # "" => GetConnectionDetails(c) = <<"tcp", c.Address, TRUE>>
            /\ GetConnectionDetails(c)[1] = "unix" =>
                 /\ c.Address = ""
                 /\ GetConnectionDetails(c) = <<"unix", c.SocketPath, FALSE>>
            /\ GetConnectionDetails(c)[3] <=> GetConnectionDetails(c)[1] = "tcp"
       /\ \A c \in Config :
            /\ c.Address # "" =>
                 TransportOf(c) = [networkType |-> "tcp", address |-> c.Address, isNtN |-> TRUE]
            /\ c.Address = "" =>
                 TransportOf(c) = [networkType |-> "unix", address |-> c.SocketPath, isNtN |-> FALSE]
  /\ \A i \in Dials :
       /\ ~pingConn.nil
       /\ connCalls[i].arg[1] = "tcp" <=> pingConn.NodeToNode
       /\ pingCfg.Address # "" => connCalls[i].arg = <<"tcp", pingCfg.Address>>
       /\ connCalls[i].arg[1] = "unix" => pingCfg.Address = ""
  /\ ~pingConn.nil => (pingConn.NodeToNode <=> pingCfg.Address # "")

\* with both an address and a socket path, the address has been dialed
C23_Witness ==
  /\ pingCfg.Address # "" /\ pingCfg.SocketPath # ""
  /\ \E i \in Dials : connCalls[i].ok /\ connCalls[i].arg = <<"tcp", pingCfg.Address>>
  /\ pingConn.NodeToNode

\* ----------------------------------------------------------------- C24
PingNodeReturned == pingPc \in {"report", "done"}

\* C24: when Dial fails, PingNode returns a result whose error is the dial
\* error with "connection failed: " in front (and no times), and getTip is
\* never called.
C24_DialFailureStopsPing ==
  \A i \in Dials : ~connCalls[i].ok =>
    /\ PingNodeReturned
    /\ result.Error = "connection failed: dial failed"
    /\ result.ConnectionTime = 0 /\ result.ProtocolTime = 0
    /\ TipQueries = {}
    /\ Cardinality(Dials) = 1

\* main has printed the failure of a ping whose Dial failed
C24_Witness ==
  /\ pingPc = "done"
  /\ \E i \in Dials : ~connCalls[i].ok
  /\ \E k \in DOMAIN output :
       /\ output[k].kind = "Ping failed"
       /\ output[k].error = Errorf("connection failed: ", ErrDial)

\* ----------------------------------------------------------------- C25
\* C25: when Dial succeeds and getTip fails, PingNode returns a result whose
\* error is the query's error with "protocol error: " in front, whose
\* ConnectionTime is the time measured for Dial (positive) and whose
\* ProtocolTime is left zero; Dial is called exactly once, before getTip.
C25_TipFailureKeepsConnTime ==
  /\ \A i \in TipQueries : ~connCalls[i].ok =>
       /\ PingNodeReturned
       /\ result.Error = "protocol error: tip query failed"
       /\ result.ProtocolTime = 0
       /\ \E d \in Dials :
            /\ connCalls[d].ok
            /\ d < i
            /\ result.ConnectionTime = connCalls[d].took
            /\ result.ConnectionTime > 0
  /\ \A i \in TipQueries :
       /\ Cardinality(Dials) = 1
       /\ \A d \in Dials : d < i /\ connCalls[d].ok
  /\ Cardinality(Dials) <= 1 /\ Cardinality(TipQueries) <= 1

\* a ping whose Dial took the longest time has failed in the tip query
C25_Witness ==
  /\ PingNodeReturned
  /\ \E i \in TipQueries : ~connCalls[i].ok
  /\ result.ConnectionTime = MaxDuration
  /\ result.Error = Errorf("protocol error: ", ErrTip)

\* ----------------------------------------------------------------- C26
ForwardEvents ==
  {i \in DOMAIN trace : trace[i].t = "event" /\ trace[i].op = "forward"}

\* C26: oConn is assigned before Dial is called, so it is not nil whenever
\* Dial has been called and whenever a roll-forward callback runs, every
\* header of a node-to-node run leads to a GetBlock call, and the handler's
\* error "empty ouroboros connection, aborting" is never returned, handed to
\* the error channel or printed.
C26_ConnSetBeforeCallbacks ==
  /\ CallsOf("Dial") # {} => oConn = "conn"
  /\ pc \notin {"configure", "connect", "end"} => oConn = "conn"
  /\ \A i \in ForwardEvents :
       /\ oConn = "conn"
       /\ trace[i].arg.kind = "BlockHeader" => GetBlockCallsOf(trace[i].ev) # {}
  /\ \A j \in RetsOf("RollForward", FALSE) : trace[j].arg # ErrEmptyConn
  /\ \A j \in Errors : trace[j].op # ErrEmptyConn
  /\ errorChan # ErrEmptyConn
  /\ exitMsg # ErrEmptyConn

\* the handler of a node-to-node run has used oConn to fetch a block
C26_Witness ==
  /\ TransportOf(cfg).isNtN
  /\ oConn = "conn"
  /\ \E i \in HeaderEvents : GetBlockCallsOf(trace[i].ev) # {}
  /\ RetsOf("GetBlock", TRUE) # {}
  /\ cfg.Network = "preprod"

\* ----------------------------------------------------------------- C27
\* the roll-forward events whose handler has neither returned nor is waiting
\* for GetBlock: the process crashed in them
CrashedForwards ==
  {i \in ForwardEvents :
     /\ RollForwardRetsOf(trace[i].ev) = {}
     /\ \A p \in pending : p.ev # trace[i].ev}

\* C27: the roll-forward handler never crashes: whatever the block type and
\* the payload, once the handler is through the block has been printed and
\* nil returned, or an error has been returned.
C27_HandlerNeverCrashes ==
  /\ status # "panic"
  /\ CrashedForwards = {}

\* what the handler does do: it crashes exactly on a Byron block type (EBB or
\* main) given with a block that is not of that Go type, nil included
C27_CrashesOnlyOnByronMismatch ==
  /\ status = "panic" <=> CrashedForwards # {}
  /\ \A i \in CrashedForwards :
       /\ trace[i].blockType \in {BlockTypeByronEbb, BlockTypeByronMain}
       /\ trace[i].arg.kind # "BlockHeader" =>
            trace[i].arg.shape # ShapeOfType(trace[i].blockType)

\* the handler was called with the EBB block type and a Byron main block
C27_Witness ==
  /\ status = "panic"
  /\ \E i \in CrashedForwards :
       /\ trace[i].blockType = BlockTypeByronEbb
       /\ trace[i].arg.shape = "ByronMainBlock"

\* ----------------------------------------------------------------- C28
BlockEvents == {i \in DOMAIN trace : trace[i].t = "event" /\ trace[i].op = "block"}
\* the event carries a block of the Go type that its block type decodes into
Consistent(i) ==
  /\ trace[i].arg.kind = "Block"
  /\ trace[i].arg.shape = ShapeOfType(trace[i].blockType)

\* C28: for every block (a block type and the Go type it decodes into), the
\* line the roll-forward handler chooses by the block type (Byron (EBB),
\* Byron, or the era's name for any other type) is the line the block-fetch
\* handler chooses by the Go type of the block.
C28_SameLineInBothModes ==
  /\ \A t \in BlockTypes, b \in BlockValues : b.shape = ShapeOfType(t) =>
       /\ Display(t, b).res = "ok"
       /\ Display(t, b).prints = BlockFetchDisplay(b)
       /\ Len(BlockFetchDisplay(b)) = 1
  /\ \A i \in ForwardEvents : Consistent(i) =>
       /\ (i + 1) \in DOMAIN trace
       /\ trace[i + 1] =
            DeliverEntry(BlockFetchDisplay(trace[i].arg)[1], trace[i].arg.slot, trace[i].ev)
  /\ \A i \in BlockEvents : Consistent(i) =>
       /\ (i + 1) \in DOMAIN trace
       /\ trace[i + 1] =
            DeliverEntry(Display(trace[i].blockType, trace[i].arg).prints[1],
                         trace[i].arg.slot, 0)

\* a bulk run has printed a Byron main block and then a block of a later era
C28_Witness ==
  \E i \in BlockEvents, j \in BlockEvents :
    /\ i < j
    /\ Consistent(i) /\ trace[i].blockType = BlockTypeByronMain
    /\ trace[i + 1].op = "Byron"
    /\ Consistent(j) /\ trace[j].blockType = BlockTypeConway
    /\ trace[j + 1].op = "Era"

\* ----------------------------------------------------------------- C29
\* main passes from the configuration of the magic and the era lookup on
ConfigureStep == pc = "configure" /\ pc' # "configure"
\* the era lookup of the step has accepted the era with the given entry
EraAccepted(ip) ==
  /\ pc' = "connect"
  /\ status' = "running"
  /\ intersectPoint' = ip
EraRefused(msg) ==
  /\ pc' = "end"
  /\ status' = "exit1"
  /\ exitMsg' = msg

\* C29: with a magic other than 0 configured, main neither defaults nor
\* validates the network name and looks the era up under the name as it is:
\* with no name (or a name that is not in the table) only "genesis" is
\* accepted, with the empty intersect point, and every other era is refused
\* as not supported for unknown networks. With no magic and no name the
\* network becomes "preview", with preview's magic and preview's eras.
C29_MagicOverrideSkipsNetwork ==
  [][ConfigureStep =>
       /\ cfg.Magic # 0 =>
            /\ cfg' = cfg
            /\ exitMsg' # ErrInvalidNetwork
            /\ ~NetworkRegistered(cfg.Network) =>
                 IF cfg.StartEra = "genesis"
                   THEN EraAccepted(<<>>)
                   ELSE EraRefused(ErrOnlyGenesis)
       /\ (cfg.Magic = 0 /\ cfg.Network = "") =>
            /\ cfg' = [cfg EXCEPT !.Network = "preview", !.Magic = 2]
            /\ IF cfg.StartEra \in DOMAIN eraIntersect["preview"]
                 THEN EraAccepted(eraIntersect["preview"][cfg.StartEra])
                 ELSE EraRefused(ErrUnknownEra)]_vars

\* a run with a magic and no network name has started streaming from genesis
C29_Witness ==
  /\ cfg.Magic = 42
  /\ cfg.Network = ""
  /\ cfg.StartEra = "genesis"
  /\ RetsOf("Sync", TRUE) # {}
  /\ cfg.Tip

\* ----------------------------------------------------------------- C30
PingReports == {k \in DOMAIN output : output[k].kind = "Ping Results"}

\* C30: the connection type printed after a successful ping is "UNIX socket"
\* exactly when PingNode dialed "unix", and "Node-to-Node" exactly when it
\* dialed "tcp".
C30_ReportedTypeIsDialedType ==
  \A k \in PingReports :
    \E d \in Dials :
      /\ connCalls[d].ok
      /\ output[k].connType = "UNIX socket" <=> connCalls[d].arg[1] = "unix"
      /\ output[k].connType = "Node-to-Node" <=> connCalls[d].arg[1] = "tcp"

\* what the program does do: a ping succeeds only over tcp, and the type
\* printed follows the socket path alone
C30_ReportFollowsSocketPath ==
  \A k \in PingReports :
    /\ \A d \in Dials : connCalls[d].ok /\ connCalls[d].arg = <<"tcp", pingCfg.Address>>
    /\ Dials # {}
    /\ output[k].connType = "UNIX socket" <=> pingCfg.SocketPath # ""

\* with both an address and a socket path, tcp was dialed and "UNIX socket"
\* printed
C30_Witness ==
  \E k \in PingReports, d \in Dials :
    /\ connCalls[d].arg[1] = "tcp"
    /\ output[k].connType = "UNIX socket"
    /\ pingPc = "done"
====
